---- MODULE Spec2Model ----
(***************************************************************************)
(* Model of route.py (class IPRoute): the default-gateway switcher, the    *)
(* interface/gateway registry and the cellular priority policy.            *)
(*                                                                         *)
(* Python dicts are functions from key strings to value strings; a key is  *)
(* "in" the dict iff it is in the DOMAIN.  Every request handler is one    *)
(* action.  The collaborators that are not part of route.py (the `ip`      *)
(* module, netifaces, the model store) are modelled by their effect on the *)
(* OS default route `os`, the link states `link` and the stored file       *)
(* `store`.  An ip.route call can succeed or raise, so an operation that    *)
(* calls it is the SET of the results it can have, and a handler takes     *)
(* one of them.                                                            *)
(***************************************************************************)
EXTENDS Integers, Sequences, FiniteSets, TLC

VARIABLES
    db,          \* self.model.db, the in-memory configuration dict
    store,       \* the configuration file written by save()
    cellular,    \* self.cellular
    interfaces,  \* self.interfaces, the registry: a list of dicts
    os,          \* the default route of the OS routing table
    link,        \* the set of interfaces whose link is up
    last,        \* what the last handled request was and did (history)
    prev         \* how the request before the last one relates to it (history)

vars == <<db, store, cellular, interfaces, os, link, last, prev>>

----------------------------------------------------------------------------
(* Domains of the model *)

Ifaces == {"eth0", "ppp0"}
Gws == {"10.0.0.1", "10.0.0.2"}
MaxBatch == 1        \* longest list given to the batch registry update

None == "None"             \* Python None
NoRoute == [dev |-> "", via |-> ""]   \* the routing table has no default route
NoAddr == "0.0.0.0"        \* gw[0] netifaces reports for a route without next hop
NoArg == "<noarg>"         \* ip.route.add called without the gateway argument
NonString == "<nonstring>" \* a value that is neither str nor unicode

EmptyDict == [k \in {} |-> ""]
DictSet(d, k, v) == [x \in (DOMAIN d) \cup {k} |-> IF x = k THEN v ELSE d[x]]
DictPop(d, k) == [x \in (DOMAIN d) \ {k} |-> d[x]]

\* the part of the state a handler threads through its calls: the config,
\* the stored file, the OS route, the ip.route calls made so far and the
\* exception being raised ("" for none)
Mach(d, st, o) == [db |-> d, store |-> st, os |-> o, calls |-> <<>>, err |-> ""]

AllOk(calls) == \A k \in 1..Len(calls) : calls[k].ok

\* the k-th ip.route call has the same outcome in both requests
SameBehaviour(c1, c2) ==
    \A k \in 1..Len(c1) : k <= Len(c2) => c1[k].ok = c2[k].ok

\* an ip.route call of the restoration failed
RestoreCallFailed(l) == l.restore \in {"DeleteFailed", "AddFailed"}

\* history kept for a PUT of the default route that fails in ip.route.add:
\* was the request before it such a PUT too, was that one answered 200 (ok),
\* and was it the same request under the same behaviour of ip.route whose
\* restoration made no failing call (repeat)
PrevOf(l, op, data, err, calls) ==
    IF l.op # "put_default" \/ op # "put_default" \/ err # "AddFailed"
    THEN [ok |-> FALSE, repeat |-> FALSE]
    ELSE [ok     |-> l.code = 200,
          repeat |-> /\ l.arg = data
                     /\ ~RestoreCallFailed(l)
                     /\ SameBehaviour(l.calls, calls)]

----------------------------------------------------------------------------
(* Network primitives as used by route.py *)

\* ip.route.delete("default"): on success the default route is gone,
\* on failure it raises and the routing table is as it was
route_delete(m) ==
    LET c(ok) == [prim |-> "delete", interface |-> "", gateway |-> "", ok |-> ok]
    IN  { [m EXCEPT !.calls = Append(@, c(TRUE)), !.os = NoRoute],
          [m EXCEPT !.calls = Append(@, c(FALSE)), !.err = "DeleteFailed"] }

\* ip.route.add("default", interface[, gateway])
route_add(m, iface, gw) ==
    LET c(ok) == [prim |-> "add", interface |-> iface, gateway |-> gw, ok |-> ok]
        r == [dev |-> iface, via |-> IF gw = NoArg THEN NoAddr ELSE gw]
    IN  { [m EXCEPT !.calls = Append(@, c(TRUE)), !.os = r],
          [m EXCEPT !.calls = Append(@, c(FALSE)), !.err = "AddFailed"] }

\* list_interfaces(): the interfaces whose "link" is 1
list_interfaces(lk) == {i \in Ifaces : i \in lk}

\* list_default(): {} without a default route, else gateway and interface
list_default(o) ==
    IF o = NoRoute THEN EmptyDict
    ELSE [gateway |-> o.via, interface |-> o.dev]

\* save(): save_db() and backup_db()
save(m) == [m EXCEPT !.store = m.db]

----------------------------------------------------------------------------
(* update_default *)

\* position of the first registry entry of the interface, 0 if there is none
router_index(ifs, name) ==
    LET hits == {k \in 1..Len(ifs) : ifs[k]["interface"] = name}
    IN  IF hits = {} THEN 0 ELSE CHOOSE k \in hits : \A j \in hits : k <= j

\* the request is applied as it came, whatever the registry holds
lookup_router_request(ifs, default) == default

\* "retrieve the default gateway": the first registry entry of the interface
\* replaces the whole request
lookup_router(ifs, default) ==
    LET k == router_index(ifs, default["interface"])
    IN  IF k = 0 THEN default ELSE ifs[k]

\* a change that deletes the old route only when the table has one
apply_default_lazy(m, d) ==
    LET gw == IF "gateway" \in DOMAIN d THEN d["gateway"] ELSE NoArg
        ms == IF m.os = NoRoute THEN {m} ELSE route_delete(m)
    IN  UNION { IF m1.err # "" THEN {m1}
                ELSE { IF m2.err # "" THEN m2
                       ELSE save([m2 EXCEPT
                                  !.db = DictSet(@, "default", d["interface"])])
                       : m2 \in route_add(m1, d["interface"], gw) }
                : m1 \in ms }

\* the try block of the "change" branch and what follows it
apply_default(m, d) ==
    LET gw == IF "gateway" \in DOMAIN d THEN d["gateway"] ELSE NoArg
    IN  UNION { IF m1.err # "" THEN {m1}
                ELSE { IF m2.err # "" THEN m2
                       ELSE save([m2 EXCEPT
                                  !.db = DictSet(@, "default", d["interface"])])
                       : m2 \in route_add(m1, d["interface"], gw) }
                : m1 \in route_delete(m) }

\* the "delete" branch
clear_default(m) ==
    { IF m1.err # "" THEN m1
      ELSE save([m1 EXCEPT !.db = DictPop(@, "default")])
      : m1 \in route_delete(m) }

\* update_default without the cellular check
update_default_unlocked(m, default, cell, ifs, lk) ==
    IF "interface" \in DOMAIN default /\ default["interface"] # ""
    THEN LET ifaces == list_interfaces(lk) IN
         IF ifaces = {} \/ default["interface"] \notin ifaces
         THEN {[m EXCEPT !.err = "InterfaceDown"]}
         ELSE apply_default(m, lookup_router(ifs, default))
    ELSE clear_default(m)

update_default(m, default, cell, ifs, lk) ==
    IF "interface" \in DOMAIN default /\ default["interface"] # ""
    THEN LET ifaces == list_interfaces(lk) IN
         IF ifaces = {} \/ default["interface"] \notin ifaces
         THEN {[m EXCEPT !.err = "InterfaceDown"]}
         ELSE IF cell # None
         THEN {[m EXCEPT !.err = "CellularLocked"]}
         ELSE apply_default(m, lookup_router(ifs, default))
    ELSE clear_default(m)

----------------------------------------------------------------------------
(* PUT /network/routes/default *)

put_default_schema(data) ==
    "interface" \in DOMAIN data => data["interface"] # NonString

\* message.data: nothing, an interface (also empty or ill-typed), or an
\* interface with the gateway the caller asks for
PutRequests ==
    {EmptyDict}
    \cup {[interface |-> i] : i \in Ifaces \cup {"", NonString}}
    \cup {[interface |-> i, gateway |-> "10.0.0.1"] : i \in Ifaces}

\* the queries of the network update_default makes: list_interfaces(), when
\* the request names an interface
update_default_queries(default) ==
    IF "interface" \in DOMAIN default /\ default["interface"] # "" THEN 1 ELSE 0

\* a handler that answers the failure without recovering the previous route
recover_default_skipped(m1, default, cell, ifs, lk) ==
    {[m |-> m1, code |-> 404, err |-> m1.err, restore |-> "none", queries |-> 0]}

\* a handler that answers the error of the restoration when that fails too
recover_default_masking(m1, default, cell, ifs, lk) ==
    IF DOMAIN default = {}
    THEN {[m |-> m1, code |-> 404, err |-> m1.err, restore |-> "none",
           queries |-> 0]}
    ELSE { [m |-> m2, code |-> 404,
            err |-> IF m2.err = "" THEN m1.err ELSE m2.err,
            restore |-> IF m2.err = "" THEN "ok" ELSE m2.err,
            queries |-> update_default_queries(default)]
           : m2 \in update_default([m1 EXCEPT !.err = ""], default, cell, ifs, lk) }

\* "recover the previous default gateway if any"; err is the exception of
\* the failed update, which the restoration does not replace
recover_default(m1, default, cell, ifs, lk) ==
    IF DOMAIN default = {}
    THEN {[m |-> m1, code |-> 404, err |-> m1.err, restore |-> "none",
           queries |-> 0]}
    ELSE { [m |-> m2, code |-> 404, err |-> m1.err,
            restore |-> IF m2.err = "" THEN "ok" ELSE m2.err,
            queries |-> update_default_queries(default)]
           : m2 \in update_default([m1 EXCEPT !.err = ""], default, cell, ifs, lk) }

\* a handler that reads the current default route before it validates
put_default_late_check(data, d, st, o, cell, ifs, lk) ==
    LET default == list_default(o)
        q == 1 + update_default_queries(data)
    IN  IF ~put_default_schema(data)
        THEN {[m |-> Mach(d, st, o), code |-> 400, err |-> "Invalid",
               restore |-> "none", queries |-> 1]}
        ELSE UNION { IF m1.err = ""
                     THEN {[m |-> m1, code |-> 200, err |-> "",
                            restore |-> "none", queries |-> q]}
                     ELSE { [r EXCEPT !.queries = @ + q]
                            : r \in recover_default(m1, default, cell, ifs, lk) }
                     : m1 \in update_default(Mach(d, st, o), data, cell, ifs, lk) }

\* the handler: the results it can have, each with the machine, the
\* response code, the error answered, what became of the restoration
\* ("none": not tried, "ok", or the exception that ended it) and the number
\* of queries of the network made (list_default(), list_interfaces())
put_default(data, d, st, o, cell, ifs, lk) ==
    IF ~put_default_schema(data)
    THEN {[m |-> Mach(d, st, o), code |-> 400, err |-> "Invalid",
           restore |-> "none", queries |-> 0]}
    ELSE LET default == list_default(o)
             q == 1 + update_default_queries(data)
         IN  UNION { IF m1.err = ""
                     THEN {[m |-> m1, code |-> 200, err |-> "",
                            restore |-> "none", queries |-> q]}
                     ELSE { [r EXCEPT !.queries = @ + q]
                            : r \in recover_default(m1, default, cell, ifs, lk) }
                     : m1 \in update_default(Mach(d, st, o), data, cell, ifs, lk) }

_put_default ==
    \E data \in PutRequests :
      \E r \in put_default(data, db, store, os, cellular, interfaces, link) :
          /\ db' = r.m.db
          /\ store' = r.m.store
          /\ os' = r.m.os
          /\ last' = [op |-> "put_default", arg |-> data, code |-> r.code,
                      err |-> r.err, raised |-> FALSE, restore |-> r.restore,
                      calls |-> r.m.calls, queries |-> r.queries]
          /\ prev' = PrevOf(last, "put_default", data, r.err, r.m.calls)
          /\ UNCHANGED <<cellular, interfaces, link>>

----------------------------------------------------------------------------
(* GET /network/routes/default *)

\* a handler that answers what the routing table holds
get_default_os(d, o) == list_default(o)

\* the data of the response: a dict is true iff it is not empty
get_default(d, o) ==
    LET default == list_default(o)
    IN  IF /\ DOMAIN d # {}
           /\ "default" \in DOMAIN d
           /\ DOMAIN default # {}
           /\ d["default"] = default["interface"]
        THEN default
        ELSE d

_get_default ==
    /\ last' = [op |-> "get_default", arg |-> EmptyDict, code |-> 200,
                err |-> "", raised |-> FALSE, restore |-> "none",
                calls |-> <<>>, data |-> get_default(db, os)]
    /\ prev' = PrevOf(last, "get_default", EmptyDict, "", <<>>)
    /\ UNCHANGED <<db, store, cellular, interfaces, os, link>>

----------------------------------------------------------------------------
(* cellular_connected *)

\* a disconnection that resets self.cellular and leaves the route alone
cellular_connected_keep(name, up, d, st, o, ifs, lk) ==
    IF up
    THEN { [m |-> m1, cellular |-> name]
           : m1 \in update_default(Mach(d, st, o), [interface |-> name],
                                   name, ifs, lk) }
    ELSE IF "default" \notin DOMAIN d
    THEN {[m |-> [Mach(d, st, o) EXCEPT !.err = "KeyError"], cellular |-> None]}
    ELSE {[m |-> Mach(d, st, o), cellular |-> None]}

\* the results: the machine (m.err is the exception that escapes) and the
\* new self.cellular
cellular_connected(name, up, d, st, o, ifs, lk) ==
    IF up
    THEN { [m |-> m1, cellular |-> name]
           : m1 \in update_default(Mach(d, st, o), [interface |-> name],
                                   name, ifs, lk) }
    ELSE IF "default" \notin DOMAIN d
    THEN {[m |-> [Mach(d, st, o) EXCEPT !.err = "KeyError"], cellular |-> None]}
    ELSE IF name = d["default"]
    THEN { [m |-> m1, cellular |-> None]
           : m1 \in update_default(Mach(d, st, o), EmptyDict, None, ifs, lk) }
    ELSE {[m |-> Mach(d, st, o), cellular |-> None]}

CellularConnected ==
    \E name \in Ifaces, up \in BOOLEAN :
      \E r \in cellular_connected(name, up, db, store, os, interfaces, link) :
          /\ cellular' = r.cellular
          /\ db' = r.m.db
          /\ store' = r.m.store
          /\ os' = r.m.os
          /\ last' = [op |-> IF up THEN "cellular_up" ELSE "cellular_down",
                      arg |-> [name |-> name, was |-> cellular],
                      code |-> 0, err |-> r.m.err,
                      raised |-> r.m.err # "", restore |-> "none",
                      calls |-> r.m.calls]
          /\ prev' = PrevOf(last, "cellular", EmptyDict, "", <<>>)
          /\ UNCHANGED <<interfaces, link>>

----------------------------------------------------------------------------
(* update_interface_router and the handlers that call it *)

UpdateRequests ==
    {[name |-> i] : i \in Ifaces}
    \cup {[name |-> i, gateway |-> g] : i \in Ifaces, g \in Gws}

\* an upsert that appends an entry for every update
update_router_append(ifs, interface) ==
    Append(ifs, IF "gateway" \in DOMAIN interface
                THEN [interface |-> interface["name"],
                      gateway |-> interface["gateway"]]
                ELSE [interface |-> interface["name"]])

\* an upsert that stores the update as the whole entry: an update without
\* gateway drops the gateway the entry had
update_router_replace(ifs, interface) ==
    LET k == router_index(ifs, interface["name"])
        e == IF "gateway" \in DOMAIN interface
             THEN [interface |-> interface["name"],
                   gateway |-> interface["gateway"]]
             ELSE [interface |-> interface["name"]]
    IN  IF k # 0 THEN [ifs EXCEPT ![k] = e] ELSE Append(ifs, e)

\* "update the router information": the for/else of update_interface_router
update_router(ifs, interface) ==
    LET k == router_index(ifs, interface["name"]) IN
    IF k # 0
    THEN IF "gateway" \in DOMAIN interface
         THEN [ifs EXCEPT ![k] = DictSet(@, "gateway", interface["gateway"])]
         ELSE ifs
    ELSE Append(ifs, IF "gateway" \in DOMAIN interface
                     THEN [interface |-> interface["name"],
                           gateway |-> interface["gateway"]]
                     ELSE [interface |-> interface["name"]])

\* an update that never re-applies the default route
reapply_default_never(iface, m, cell, ifs, lk) ==
    IF "default" \notin DOMAIN m.db
    THEN {[m EXCEPT !.err = "KeyError"]}
    ELSE {m}

\* "check if the default gateway need to be modified": m.err is the
\* exception that escapes (only the KeyError of db["default"]); the
\* exceptions of the re-apply are swallowed
reapply_default(iface, m, cell, ifs, lk) ==
    IF "default" \notin DOMAIN m.db
    THEN {[m EXCEPT !.err = "KeyError"]}
    ELSE IF iface["interface"] = m.db["default"]
    THEN { [m1 EXCEPT !.err = ""] : m1 \in update_default(m, iface, cell, ifs, lk) }
    ELSE {m}

update_interface_router(interface, m, cell, ifs, lk) ==
    LET ifs1  == update_router(ifs, interface)
        iface == ifs1[router_index(ifs1, interface["name"])]
    IN  { [m |-> m1, interfaces |-> ifs1]
          : m1 \in reapply_default(iface, m, cell, ifs1, lk) }

\* the loop of set_router_db over a list: an escaping exception ends it
RECURSIVE update_routers(_, _, _, _, _)
update_routers(data, m, cell, ifs, lk) ==
    IF data = <<>> THEN {[m |-> m, interfaces |-> ifs]}
    ELSE UNION { IF r.m.err # "" THEN {r}
                 ELSE update_routers(Tail(data), r.m, cell, r.interfaces, lk)
                 : r \in update_interface_router(Head(data), m, cell, ifs, lk) }

\* message.data of the batch update: a list of interfaces with their gateways
Batches ==
    UNION {[1..n -> {u \in UpdateRequests : "gateway" \in DOMAIN u}]
           : n \in 0..MaxBatch}

\* PUT /network/routes/db with a list
set_router_db_list ==
    \E data \in Batches :
      \E r \in update_routers(data, Mach(db, store, os), cellular, interfaces, link) :
          /\ interfaces' = r.interfaces
          /\ db' = r.m.db
          /\ store' = r.m.store
          /\ os' = r.m.os
          /\ last' = [op |-> "set_router_db_list", arg |-> [len |-> Len(data)],
                      code |-> IF r.m.err = "" THEN 200 ELSE 0,
                      err |-> r.m.err, raised |-> r.m.err # "",
                      restore |-> "none", calls |-> r.m.calls]
          /\ prev' = PrevOf(last, "set_router_db_list", EmptyDict, "", <<>>)
          /\ UNCHANGED <<cellular, link>>

\* PUT /network/routes/db with a dict, or (respond = FALSE) the event
\* PUT /network/interface
set_router_db_dict(respond) ==
    \E data \in UpdateRequests :
      \E r \in update_interface_router(data, Mach(db, store, os), cellular,
                                       interfaces, link) :
          /\ interfaces' = r.interfaces
          /\ db' = r.m.db
          /\ store' = r.m.store
          /\ os' = r.m.os
          /\ last' = [op |-> IF respond THEN "set_router_db" ELSE "event_router_db",
                      arg |-> data,
                      code |-> IF respond /\ r.m.err = "" THEN 200 ELSE 0,
                      err |-> r.m.err, raised |-> r.m.err # "",
                      restore |-> "none", calls |-> r.m.calls]
          /\ prev' = PrevOf(last, "set_router_db", EmptyDict, "", <<>>)
          /\ UNCHANGED <<cellular, link>>

_set_router_db == set_router_db_dict(TRUE)

_event_router_db == set_router_db_dict(FALSE)

\* PUT /network/routes/db with data that is neither a list nor a dict
set_router_db_other ==
    /\ prev' = PrevOf(last, "set_router_db_other", EmptyDict, "", <<>>)
    /\ last' = [op |-> "set_router_db_other", arg |-> EmptyDict, code |-> 400,
                err |-> "WrongType", raised |-> FALSE, restore |-> "none",
                calls |-> <<>>]
    /\ UNCHANGED <<db, store, cellular, interfaces, os, link>>

----------------------------------------------------------------------------
(* init: start of the process on the stored configuration *)

Stores == {EmptyDict} \cup {[default |-> i] : i \in Ifaces}
Routes == {NoRoute} \cup [dev : Ifaces, via : Gws \cup {NoAddr}]

\* load() reads the stored file into model.db and saves it; then
\* update_default(self.model.db), whose exceptions are swallowed
init(st, o, lk) ==
    { [m1 EXCEPT !.err = ""]
      : m1 \in update_default(save(Mach(st, st, o)), st, None, <<>>, lk) }

Restart ==
    \E m \in init(store, os, link) :
          /\ db' = m.db
          /\ store' = m.store
          /\ os' = m.os
          /\ cellular' = None
          /\ interfaces' = <<>>
          /\ last' = [op |-> "init", arg |-> EmptyDict, code |-> 0, err |-> "",
                      raised |-> FALSE, restore |-> "none", calls |-> m.calls]
          /\ prev' = PrevOf(last, "init", EmptyDict, "", <<>>)
          /\ UNCHANGED link

----------------------------------------------------------------------------
(* Environment: a link goes up or down *)

LinkChange ==
    \E i \in Ifaces :
      /\ link' = IF i \in link THEN link \ {i} ELSE link \cup {i}
      /\ prev' = PrevOf(last, "link", EmptyDict, "", <<>>)
      /\ last' = [op |-> "link", arg |-> EmptyDict, code |-> 0, err |-> "",
                  raised |-> FALSE, restore |-> "none", calls |-> <<>>]
      /\ UNCHANGED <<db, store, cellular, interfaces, os>>

----------------------------------------------------------------------------

Init ==
    \E st \in Stores, o \in Routes, lk \in SUBSET Ifaces :
      \E m \in init(st, o, lk) :
          /\ db = m.db
          /\ store = m.store
          /\ os = m.os
          /\ cellular = None
          /\ interfaces = <<>>
          /\ link = lk
          /\ last = [op |-> "init", arg |-> EmptyDict, code |-> 0, err |-> "",
                     raised |-> FALSE, restore |-> "none", calls |-> m.calls]
          /\ prev = [ok |-> FALSE, repeat |-> FALSE]

Next ==
    \/ _put_default
    \/ _get_default
    \/ CellularConnected
    \/ _set_router_db
    \/ _event_router_db
    \/ set_router_db_list
    \/ set_router_db_other
    \/ Restart
    \/ LinkChange

Spec == Init /\ [][Next]_vars

----------------------------------------------------------------------------
(* Properties *)

IsPut(l) == l.op = "put_default"
ReqIface(l) == IF "interface" \in DOMAIN l.arg THEN l.arg["interface"] ELSE ""
FailCount(calls) == Cardinality({k \in 1..Len(calls) : ~calls[k].ok})
Persisted(d) == IF "default" \in DOMAIN d THEN d["default"] ELSE None

\* C1 as stated: after a successful PUT of the default route, a PUT that
\* fails because ip.route.add fails leaves the OS default route and the
\* persisted default as they were before it.
C1_RollbackAlways ==
    [][ (IsPut(last) /\ last.code = 200 /\ IsPut(last') /\ last'.err = "AddFailed")
        => (os' = os /\ db' = db /\ store' = store) ]_vars

\* C1 amended: after a successful PUT, a PUT that fails because
\* ip.route.add fails leaves the persisted default as it was; it leaves the
\* OS default route as it was if no ip.route call of the restoration fails,
\* and leaves the host without a default route if one does.
C1_Rollback ==
    [][ (IsPut(last) /\ last.code = 200 /\ IsPut(last') /\ last'.err = "AddFailed")
        => /\ db' = db /\ store' = store
           /\ last'.code = 404
           /\ IF FailCount(last'.calls) = 1 THEN os' = os ELSE os' = NoRoute ]_vars

C1_Witness ==
    /\ IsPut(last) /\ prev.ok
    /\ last.err = "AddFailed" /\ last.restore = "ok"
    /\ Len(last.calls) = 4 /\ FailCount(last.calls) = 1
    /\ os # NoRoute

C3_CellularUp ==
    [][ (last'.op = "cellular_up" /\ last'.arg["name"] \in link
         /\ AllOk(last'.calls))
        => /\ cellular' = last'.arg["name"]
           /\ os' = [dev |-> last'.arg["name"], via |-> NoAddr]
           /\ Persisted(db') = last'.arg["name"]
           /\ store' = db' ]_vars

\* C4: a PUT for an interface that is not link-up fails with the
\* interface-down error and leaves the persisted default and the OS
\* default route as they were.
C4_InterfaceDown ==
    [][ (IsPut(last') /\ ReqIface(last') \in Ifaces \ link)
        => /\ last'.err = "InterfaceDown"
           /\ db' = db /\ store' = store /\ os' = os ]_vars

\* C5 as stated: the cellular-down signal for name, while the state is
\* Active(name) and name is the persisted default, leaves the cellular
\* state Inactive, the OS default route removed and no default persisted.
C5_CellularDownAlways ==
    [][ (last'.op = "cellular_down" /\ cellular = last'.arg["name"]
         /\ Persisted(db) = last'.arg["name"])
        => /\ cellular' = None
           /\ os' = NoRoute
           /\ db' = EmptyDict /\ store' = EmptyDict ]_vars

\* C5 amended: in that case the cellular state becomes Inactive and the one
\* ip.route call made is the delete of the default route (no interface is
\* selected as a fallback); if the delete succeeds the OS default route is
\* removed and no default is persisted, and if it fails the error escapes
\* and the OS default route and the persisted default stay as they were.
C5_CellularDown ==
    [][ (last'.op = "cellular_down" /\ cellular = last'.arg["name"]
         /\ Persisted(db) = last'.arg["name"])
        => /\ cellular' = None
           /\ Len(last'.calls) = 1 /\ last'.calls[1].prim = "delete"
           /\ IF last'.calls[1].ok
              THEN /\ os' = NoRoute /\ db' = EmptyDict /\ store' = EmptyDict
                   /\ ~last'.raised
              ELSE /\ os' = os /\ db' = db /\ store' = store
                   /\ last'.raised /\ last'.err = "DeleteFailed" ]_vars

C5_Witness ==
    /\ last.op = "cellular_down" /\ last.arg["was"] = last.arg["name"]
    /\ last.calls # <<>> /\ AllOk(last.calls)
    /\ cellular = None /\ os = NoRoute /\ db = EmptyDict /\ store = EmptyDict
    /\ link # {}

\* C6: a cellular-down signal for name, when the cellular state is Inactive
\* or Active(other), leaves the cellular state, the persisted default, the
\* OS default route and the registry unchanged and raises no error.
C6_CellularDownNoOp ==
    [][ (last'.op = "cellular_down" /\ cellular # last'.arg["name"])
        => /\ UNCHANGED <<cellular, db, store, os, interfaces>>
           /\ ~last'.raised ]_vars

\* C7: when the registry holds an entry for n, a successful PUT for n
\* (whatever gateway it carries) adds the route with the gateway of the
\* entry, or without gateway if the entry has none, and persists only the
\* interface name n.
C7_RegistryOverrides ==
    [][ (IsPut(last') /\ last'.code = 200 /\ ReqIface(last') \in Ifaces
         /\ router_index(interfaces, ReqIface(last')) # 0)
        => LET n == ReqIface(last')
               e == interfaces[router_index(interfaces, n)]
               g == IF "gateway" \in DOMAIN e THEN e["gateway"] ELSE NoArg
           IN  /\ last'.calls =
                    << [prim |-> "delete", interface |-> "", gateway |-> "",
                        ok |-> TRUE],
                       [prim |-> "add", interface |-> n, gateway |-> g,
                        ok |-> TRUE] >>
               /\ os' = [dev |-> n, via |-> IF g = NoArg THEN NoAddr ELSE g]
               /\ db' = [default |-> n]
               /\ store' = [default |-> n] ]_vars

C7_Witness ==
    /\ IsPut(last) /\ last.code = 200 /\ "gateway" \in DOMAIN last.arg
    /\ router_index(interfaces, ReqIface(last)) # 0
    /\ LET e == interfaces[router_index(interfaces, ReqIface(last))]
       IN  /\ "gateway" \in DOMAIN e
           /\ e["gateway"] # last.arg["gateway"]
           /\ os = [dev |-> ReqIface(last), via |-> e["gateway"]]
    /\ db = [default |-> ReqIface(last)]

IsUpdate(l) == l.op \in {"set_router_db", "event_router_db"}

C9_SurvivesRestart ==
    [][ (IsPut(last) /\ last.code = 200 /\ ReqIface(last) \in link
         /\ last'.op = "init" /\ AllOk(last'.calls))
        => /\ Persisted(db') = ReqIface(last)
           /\ Persisted(store') = ReqIface(last)
           /\ os'.dev = ReqIface(last) ]_vars

\* C10 as stated: two consecutive PUTs of {interface: n}, with nothing
\* changed in between and the same behaviour of the primitives, leave the
\* same persisted config, the same OS default route and make the same
\* sequence of ip.route calls.
C10_IdempotentAlways ==
    [][ (IsPut(last) /\ IsPut(last') /\ last'.arg = last.arg
         /\ ReqIface(last') \in Ifaces
         /\ SameBehaviour(last.calls, last'.calls))
        => /\ db' = db /\ store' = store /\ os' = os
           /\ last'.calls = last.calls ]_vars

\* C10 amended: they leave the same persisted config and the same OS
\* default route and get the same answer, and they make the same sequence
\* of ip.route calls unless an ip.route call of the first request's
\* restoration failed.
C10_Idempotent ==
    [][ (IsPut(last) /\ IsPut(last') /\ last'.arg = last.arg
         /\ ReqIface(last') \in Ifaces
         /\ SameBehaviour(last.calls, last'.calls))
        => /\ db' = db /\ store' = store /\ os' = os
           /\ last'.code = last.code /\ last'.err = last.err
           /\ ~RestoreCallFailed(last) => last'.calls = last.calls ]_vars

C10_Witness ==
    /\ IsPut(last) /\ prev.repeat /\ ReqIface(last) \in Ifaces
    /\ last.err = "AddFailed" /\ last.restore = "ok" /\ Len(last.calls) = 4

HasGw(e) == "gateway" \in DOMAIN e

\* C11: an interface update (name, gateway?) on an existing registry entry
\* replaces the stored gateway only when it carries a gateway and leaves
\* the entry untouched when it carries none; on a missing entry it appends
\* one whose gateway is present exactly when the update carries one; the
\* entries of all other names are unchanged.
C11_PartialUpdate ==
    [][ IsUpdate(last')
        => LET u == last'.arg
               k == router_index(interfaces, u["name"])
           IN  IF k # 0
               THEN /\ Len(interfaces') = Len(interfaces)
                    /\ interfaces'[k]["interface"] = u["name"]
                    /\ IF HasGw(u)
                       THEN /\ HasGw(interfaces'[k])
                            /\ interfaces'[k]["gateway"] = u["gateway"]
                       ELSE interfaces'[k] = interfaces[k]
                    /\ \A j \in 1..Len(interfaces) :
                          j # k => interfaces'[j] = interfaces[j]
               ELSE /\ Len(interfaces') = Len(interfaces) + 1
                    /\ LET e == interfaces'[Len(interfaces')]
                       IN  /\ e["interface"] = u["name"]
                           /\ HasGw(e) <=> HasGw(u)
                           /\ HasGw(u) => e["gateway"] = u["gateway"]
                           /\ DOMAIN e \subseteq {"interface", "gateway"}
                    /\ \A j \in 1..Len(interfaces) :
                          interfaces'[j] = interfaces[j] ]_vars

\* an update without gateway has met an entry that holds a gateway, next to
\* the entry of another interface
C11_Witness ==
    /\ IsUpdate(last) /\ ~HasGw(last.arg)
    /\ Len(interfaces) = 2
    /\ LET k == router_index(interfaces, last.arg["name"])
       IN  k # 0 /\ HasGw(interfaces[k])

\* C12: in every state, handling an interface update {name, gateway?}
\* completes without an error escaping to its caller, and the registry holds
\* the updated entry afterwards.
C12_UpdateNeverRaises ==
    [][ IsUpdate(last')
        => /\ ~last'.raised
           /\ router_index(interfaces', last'.arg["name"]) # 0 ]_vars

\* C13: GET of the default route answers the default the OS reports
\* (gateway and interface) when its interface is the persisted default
\* interface, and the persisted config when the two differ or the OS has no
\* default route; it changes neither the OS route, the persisted config,
\* the registry nor the cellular state.
C13_GetDefault ==
    [][ last'.op = "get_default"
        => /\ last'.code = 200
           /\ IF os # NoRoute /\ Persisted(db) = os.dev
              THEN last'.data = [gateway |-> os.via, interface |-> os.dev]
              ELSE last'.data = db
           /\ UNCHANGED <<os, db, store, interfaces, cellular>> ]_vars

\* the OS route goes through another interface than the persisted one, and
\* the request answered the persisted config
C13_Witness ==
    /\ last.op = "get_default"
    /\ os # NoRoute /\ "default" \in DOMAIN db /\ db["default"] # os.dev
    /\ last.data = db

\* C14: a PUT of the default route whose shape is malformed is answered 400
\* with a message, and during it no query of the network and no
\* ip.route.delete/add is made and the store is not written; every other
\* rejected PUT (interface down, cellular locked, primitive failure) is
\* answered 404 with a message.
C14_ValidationRejection ==
    [][ IsPut(last')
        => /\ ~put_default_schema(last'.arg)
              => /\ last'.code = 400 /\ last'.err = "Invalid"
                 /\ last'.queries = 0 /\ last'.calls = <<>>
                 /\ store' = store /\ db' = db /\ os' = os
           /\ (put_default_schema(last'.arg) /\ last'.code # 200)
              => /\ last'.code = 404
                 /\ last'.err \in {"InterfaceDown", "CellularLocked",
                                   "DeleteFailed", "AddFailed"}
           /\ last'.code = 200 <=> last'.err = "" ]_vars

\* a malformed request was rejected on a host that has a default route and
\* a persisted default
C14_Witness ==
    /\ IsPut(last) /\ last.code = 400
    /\ ReqIface(last) = NonString
    /\ os # NoRoute /\ "default" \in DOMAIN db /\ link # {}

\* position of the first ip.route call that failed
FirstFail(calls) ==
    LET f == {k \in 1..Len(calls) : ~calls[k].ok}
    IN  CHOOSE k \in f : \A j \in f : k <= j

\* C15: when a PUT of the default route fails in an ip.route call and the
\* restoration of the previous route fails too, the caller is answered 404
\* with the error of the request's own failure, not the restoration's, and
\* one restoration was attempted: after the failed call there is at most
\* one delete and, only if it succeeded, one add.
C15_OriginalFailure ==
    [][ (/\ IsPut(last') /\ put_default_schema(last'.arg)
         /\ ReqIface(last') = "" \/ (ReqIface(last') \in link /\ cellular = None)
         /\ last'.restore \notin {"none", "ok"})
        => LET c    == last'.calls
               f    == FirstFail(c)
               rest == SubSeq(c, f + 1, Len(c))
           IN  /\ last'.code = 404
               /\ last'.err = IF c[f].prim = "delete"
                               THEN "DeleteFailed" ELSE "AddFailed"
               /\ f <= 2
               /\ CASE last'.restore = "DeleteFailed" ->
                          /\ Len(rest) = 1
                          /\ rest[1].prim = "delete" /\ ~rest[1].ok
                    [] last'.restore = "AddFailed" ->
                          /\ Len(rest) = 2
                          /\ rest[1].prim = "delete" /\ rest[1].ok
                          /\ rest[2].prim = "add" /\ ~rest[2].ok
                    [] OTHER -> rest = <<>> ]_vars

\* the add of the request failed, then the delete of the restoration
C15_Witness ==
    /\ IsPut(last) /\ last.code = 404
    /\ last.err = "AddFailed" /\ last.restore = "DeleteFailed"
    /\ Len(last.calls) = 3

\* C16: an empty PUT of the default route whose ip.route.delete fails is
\* answered with the error, makes no further ip.route call after the failed
\* delete and leaves the persisted config as it was before the request.
C16_ClearNoRollback ==
    [][ (IsPut(last') /\ ReqIface(last') = "" /\ last'.err = "DeleteFailed")
        => /\ last'.code = 404
           /\ Len(last'.calls) = 1
           /\ db' = db /\ store' = store ]_vars

\* the value self.cellular has while the request of this step does its
\* route work: the signalled name for a cellular-up signal (it is assigned
\* first), else the value the request found
LockOf(l, cell) == IF l.op = "cellular_up" THEN l.arg["name"] ELSE cell

\* C17: whatever the request (PUT or clear of the default, single or batch
\* interface update, cellular signal, with their restoration paths), while
\* the cellular state is Active(x) no ip.route.add is called for an
\* interface other than x, and the persisted default does not become an
\* interface other than x: it stays what it was or is removed.
C17_CellularLock ==
    [][ LockOf(last', cellular) # None
        => LET x == LockOf(last', cellular)
           IN  /\ \A k \in 1..Len(last'.calls) :
                     last'.calls[k].prim = "add"
                     => last'.calls[k].interface = x
               /\ Persisted(db') \in {x, Persisted(db), None}
               /\ Persisted(store') \in {x, Persisted(store), None} ]_vars

\* under the lock a clear failed in its delete, and the restoration of the
\* route of another interface was refused
C17_Witness ==
    /\ IsPut(last) /\ cellular # None
    /\ last.err = "DeleteFailed" /\ last.restore = "CellularLocked"
    /\ os # NoRoute /\ os.dev # cellular

Count(calls, prim) == Cardinality({k \in 1..Len(calls) : calls[k].prim = prim})

\* C18: in every request each ip.route.add directly follows an
\* ip.route.delete that succeeded; a default interface is newly persisted
\* only by a request in which the add for that interface succeeded; and one
\* PUT of the default route makes at most one delete and one add for the
\* requested route, and after a failure of those at most one delete and one
\* add for the restoration.
C18_ApplyOrder ==
    [][ LET c == last'.calls
        IN  /\ \A k \in 1..Len(c) :
                  c[k].prim = "add"
                  => k > 1 /\ c[k-1].prim = "delete" /\ c[k-1].ok
            /\ (Persisted(db') # Persisted(db) /\ Persisted(db') # None)
               => \E k \in 1..Len(c) :
                     /\ c[k].prim = "add" /\ c[k].ok
                     /\ c[k].interface = Persisted(db')
            /\ IsPut(last')
               => /\ Count(c, "delete") <= 2 /\ Count(c, "add") <= 2
                  /\ c # <<>> => c[1].prim = "delete"
                  /\ \A k \in 2..Len(c) :
                        c[k].prim = "delete" => ~c[k-1].ok
                  /\ last'.code = 200 => Len(c) <= 2 /\ AllOk(c) ]_vars

\* a PUT whose add failed and whose restoration failed in its add too: four
\* calls and no more, and the host is left without default route
C18_Witness ==
    /\ IsPut(last) /\ Len(last.calls) = 4
    /\ last.err = "AddFailed" /\ last.restore = "AddFailed"
    /\ os = NoRoute

IsRegistryOp(l) == IsUpdate(l) \/ l.op = "set_router_db_list"

\* C19: over the requests of a running process, single and batch interface
\* updates leave at most one registry entry per interface name, remove no
\* entry and change no entry's interface name; a PUT or clear of the
\* default route, a cellular signal and every other request leave the
\* registry as it is.
C19_RegistryShape ==
    [][ last'.op # "init"
        => /\ \A j, k \in 1..Len(interfaces') :
                 interfaces'[j]["interface"] = interfaces'[k]["interface"]
                 => j = k
           /\ Len(interfaces') >= Len(interfaces)
           /\ \A k \in 1..Len(interfaces) :
                 interfaces'[k]["interface"] = interfaces[k]["interface"]
           /\ ~IsRegistryOp(last') => interfaces' = interfaces ]_vars

\* the registry holds an entry for either interface, and the last update
\* met the entry of its interface, whose gateway it replaced
C19_Witness ==
    /\ IsRegistryOp(last) /\ Len(interfaces) = Cardinality(Ifaces)
    /\ IsUpdate(last) /\ HasGw(last.arg)
    /\ interfaces[1]["interface"] = last.arg["name"]
    /\ interfaces[1]["gateway"] = last.arg["gateway"]
    /\ last.calls # <<>>
====
